---- MODULE Spec2Model ----
(***************************************************************************)
(* The gateway event pipeline of IoT_trustFramework1:                      *)
(*   Gateway/src/index.js            (src/unnamed/part_002)                *)
(*   Gateway/src/blockchain.js       (src/unnamed/part_001)                *)
(*   Gateway/src/systemValidation.js (src/unnamed/part_003)                *)
(* Node.js runs every handler to its next await without interruption, so   *)
(* one action is one such run: the code between two awaits.                *)
(***************************************************************************)
EXTENDS Integers, Sequences, FiniteSets, TLC

\* ------------------------------------------------------------------ bounds
\* Number of POST /data submissions of a behaviour of Spec (any credential,
\* any payload shape, any configuration).
MaxReqs == 2
\* Number of submissions of a behaviour of QueueSpec (all of them flagged, so
\* that items wait in the write queue behind one another).
MaxQueueReqs == 3

Reqs == 1..(IF MaxReqs >= MaxQueueReqs THEN MaxReqs ELSE MaxQueueReqs)

\* ------------------------------------------------------- JavaScript values
\* undefined / null in a numeric position (all modelled numbers are >= 0).
Undefined == 0 - 1
\* undefined / null in a string position.
Null == "null"

Max(a, b) == IF a >= b THEN a ELSE b
Abs(a) == IF a >= 0 THEN a ELSE 0 - a

\* a ?? b on numbers.
Coalesce(a, b) == IF a # Undefined THEN a ELSE b
\* a || b on numbers: 0 and undefined are falsy.
OrElse(a, b) == IF a # Undefined /\ a # 0 THEN a ELSE b

\* ----------------------------------------------------------- configuration
GATEWAY_API_KEY == "dhanushharini03080411"
DEFAULT_THRESHOLD == 60

WINDOW_EVENTS == 20
DROP_DELTA == 10
INSTABILITY_DELTA == 8
DROP_COUNT_THRESHOLD == 3
\* INSTABILITY_FRACTION = 0.4, kept as the exact fraction 2/5.
INSTABILITY_FRACTION_NUM == 2
INSTABILITY_FRACTION_DEN == 5

maxAttempts == 4
PAUSE_MS == 500
BACKOFF_BASE_MS == 1000

RECURSIVE Pow2(_)
Pow2(n) == IF n <= 0 THEN 1 ELSE 2 * Pow2(n - 1)

\* ------------------------------------------------------------------ inputs
DeviceId == "esp32-01"
Groups == {"group-1", "group-2"}
\* The x-api-key header: absent, some other key, the gateway's key.
Credentials == {Null, "wrong-key", GATEWAY_API_KEY}
\* <<payload.groupId, <<payload.trustA, payload.trustB>>, payload.ts>>, ts in
\* seconds as the device sends it: a score below, at and above the default
\* threshold on either sensor, in a group with and without its own threshold.
PayloadShapes ==
    { <<"group-1", <<59, 100>>, 1000>>,
      <<"group-1", <<60, 100>>, 1000>>,
      <<"group-1", <<100, 59>>, 2000>>,
      <<"group-2", <<59, 100>>, 2000>>,
      <<"group-2", <<Undefined, 58>>, 1000>> }

\* The shapes of QueueSpec: both flagged under the default threshold.
QueueShapes ==
    { <<"group-1", <<59, 100>>, 1000>>,
      <<"group-1", <<100, 59>>, 2000>> }

\* The body of a submission; eventId is unique per submission, and newTS is
\* the device's trustA.
Payloads(r, Shapes) ==
    { [eventId |-> r, deviceId |-> DeviceId, groupId |-> sh[1],
       trustA |-> sh[2][1], trustB |-> sh[2][2],
       oldTS |-> Undefined, newTS |-> sh[2][1],
       reason |-> "LOW_TRUST", ts |-> sh[3]] : sh \in Shapes }

\* --------------------------------------------------------- canonical hasher
\* keccakHash(obj): keccak256 of the canonical serialization of obj.  In the
\* gateway's actions obj is a record: the fields of an object without their
\* insertion order, which is what the canonical serialization keeps of it
\* (stableStringify, on objects with their key order, is defined with the
\* hasher specification); the digest is an injective tag of that content.
keccakHash(obj) == <<"keccak256", obj>>

\* ------------------------------------------------------------- event store
\* The outcomes of one appendEvent call at the storage layer.
StorageOutcomes == {"ok", "read_failed", "write_failed"}
StorageReliable == {"ok"}

\* readEventsRaw: the parsed file, or [] when reading or parsing fails.
readEventsRaw(file, outcome) == IF outcome = "read_failed" THEN <<>> ELSE file

\* appendEvent: read the whole file, push, write the whole file back.
appendEvent(file, evt, outcome) ==
    IF outcome = "write_failed"
    THEN file
    ELSE Append(readEventsRaw(file, outcome), evt)

\* appendEvent without its try: a failed write is thrown to the caller.
MutAppendThrows(outcome) == outcome = "write_failed"

\* Whether appendEvent throws: its catch logs the error and returns false.
AppendThrows(outcome) == FALSE

\* -------------------------------------------------------------- thresholds
\* thresholds[groupId] ?? DEFAULT_THRESHOLD; a group without an entry maps to
\* Undefined.
computeGroupThreshold(map, groupId) == Coalesce(map[groupId], DEFAULT_THRESHOLD)

\* A check that only tests that a key was sent.
MutVerifyAnyKey(key) == key # Null

verifyApiKey(key) ==
    IF GATEWAY_API_KEY = "" THEN FALSE
    ELSE key # Null /\ key # "" /\ key = GATEWAY_API_KEY

\* The threshold rule with <= for <.
MutLocalFlaggedInclusive(trustA, trustB, groupThreshold) ==
    (trustA <= groupThreshold) \/ (trustB <= groupThreshold)

\* localFlagged of POST /data.
LocalFlagged(trustA, trustB, groupThreshold) ==
    (trustA < groupThreshold) \/ (trustB < groupThreshold)

\* ------------------------------------------------------- trend analysis
\* decoded.args.groupId of a TrustEvent: groupId is an indexed string, which
\* the log decoder returns as an opaque topic object, never as the string.
IndexedGroupId == "[object Object]"

\* Stable insertion of x after every element whose ts is <= x.ts.
RECURSIVE InsertByTs(_, _)
InsertByTs(s, x) ==
    IF s = <<>> THEN <<x>>
    ELSE IF s[Len(s)].ts <= x.ts THEN Append(s, x)
    ELSE Append(InsertByTs(SubSeq(s, 1, Len(s) - 1), x), s[Len(s)])

\* Array.prototype.sort((a,b) => a.ts - b.ts): stable, ascending by ts.
RECURSIVE SortByTs(_)
SortByTs(s) ==
    IF s = <<>> THEN <<>>
    ELSE InsertByTs(SortByTs(SubSeq(s, 1, Len(s) - 1)), s[Len(s)])

RECURSIVE SelectSeq2(_, _, _)
SelectSeq2(s, groupId, deviceId) ==
    IF s = <<>> THEN <<>>
    ELSE LET e == s[1]
             rest == SelectSeq2(Tail(s), groupId, deviceId)
         IN IF (e.payload.groupId = groupId \/ e.payload.deviceId = deviceId)
               \/ e.groupId = groupId
            THEN <<e>> \o rest
            ELSE rest

\* The projection of one stored record into a trend point, read at the
\* second now: ts is the payload's ts when that is truthy, else the second of
\* receivedAt when the record has one, else Date.now() / 1000.
LocalPoint(e, now) ==
    [groupId |-> IF e.payload.groupId # Null THEN e.payload.groupId ELSE e.groupId,
     oldTS   |-> Coalesce(e.payload.oldTS, Coalesce(e.oldTS, 100)),
     newTS   |-> Coalesce(e.payload.newTS, Coalesce(e.newTS, 100)),
     ts      |-> IF e.payload.ts # Undefined /\ e.payload.ts # 0 THEN e.payload.ts
                 ELSE IF e.receivedAt # Undefined THEN e.receivedAt
                 ELSE now,
     source  |-> "local"]

readLocalEventsForGroup(file, groupId, deviceId, now) ==
    LET hits == SelectSeq2(file, groupId, deviceId)
    IN SortByTs([i \in 1..Len(hits) |-> LocalPoint(hits[i], now)])

\* One parsed TrustEvent log.
OnChainPoint(ev) ==
    [groupId |-> IndexedGroupId, oldTS |-> ev.oldTS, newTS |-> ev.newTS,
     ts |-> ev.ts, source |-> "onchain"]

RECURSIVE LogsOfGroup(_, _)
LogsOfGroup(chain, groupId) ==
    IF chain = <<>> THEN <<>>
    ELSE IF chain[1].groupId = groupId
         THEN <<chain[1]>> \o LogsOfGroup(Tail(chain), groupId)
         ELSE LogsOfGroup(Tail(chain), groupId)

\* fetchOnChainTrustEvents, when getLogs answers: the TrustEvent logs whose
\* topic is the group's, parsed and sorted by ts.
fetchOnChainTrustEvents(chain, groupId) ==
    LET logs == LogsOfGroup(chain, groupId)
    IN SortByTs([i \in 1..Len(logs) |-> OnChainPoint(logs[i])])

\* The dedup key `${item.groupId || ''}:${item.ts || 0}`.
DedupKey(item) == <<item.groupId, OrElse(item.ts, 0)>>

\* deduped.findIndex(d => d.groupId === item.groupId && d.ts === item.ts)
FindIndex(deduped, item) ==
    LET hit == {i \in 1..Len(deduped) :
                   deduped[i].groupId = item.groupId /\ deduped[i].ts = item.ts}
    IN IF hit = {} THEN 0 ELSE CHOOSE i \in hit : \A j \in hit : i <= j

\* The dedup loop over the first n items of merged; the seen set is the set of
\* keys of the items taken so far.
RECURSIVE Dedupe(_, _)
Dedupe(merged, n) ==
    IF n = 0 THEN [deduped |-> <<>>, seen |-> {}]
    ELSE LET before == Dedupe(merged, n - 1)
             item == merged[n]
         IN IF DedupKey(item) \notin before.seen
            THEN [deduped |-> Append(before.deduped, item),
                  seen |-> before.seen \cup {DedupKey(item)}]
            ELSE IF item.source = "local" /\ FindIndex(before.deduped, item) > 0
                 THEN [before EXCEPT
                          !.deduped[FindIndex(before.deduped, item)] = item]
                 ELSE before

\* slice(0, WINDOW_EVENTS): the oldest points are the ones kept.
MutWindowOldest(deduped) ==
    IF Len(deduped) <= WINDOW_EVENTS THEN deduped
    ELSE SubSeq(deduped, 1, WINDOW_EVENTS)

\* The end of buildTrustSeries: deduped itself, or its last WINDOW_EVENTS
\* items.
LastWindow(deduped) ==
    IF Len(deduped) <= WINDOW_EVENTS THEN deduped
    ELSE SubSeq(deduped, Len(deduped) - WINDOW_EVENTS + 1, Len(deduped))

\* buildTrustSeries after the two fetches: merge, sort, dedup, last window.
buildTrustSeries(local, onchain) ==
    LET merged == SortByTs(onchain \o local)
    IN LastWindow(Dedupe(merged, Len(merged)).deduped)

\* The trust value analyzeSeries reads from a point.
PointValue(p) == IF p.newTS # Undefined THEN p.newTS ELSE p.oldTS

RECURSIVE SumTo(_, _)
SumTo(f, n) == IF n = 0 THEN 0 ELSE f[n] + SumTo(f, n - 1)

\* A test that lets a single point through.
MutTooShortEmpty(series) == Len(series) < 1

\* !series || series.length < 2
TooShort(series) == Len(series) < 2

\* A drop counted only when the score falls by more than DROP_DELTA.
MutIsDropStrict(delta) == delta < 0 - DROP_DELTA

\* delta <= -DROP_DELTA
IsDrop(delta) == delta <= 0 - DROP_DELTA

\* Math.abs(delta) >= INSTABILITY_DELTA
IsInstability(delta) == Abs(delta) >= INSTABILITY_DELTA

\* analyzeSeries.  points[k] is the pair (x, y) = (k, value of series[k+1]);
\* the slope is kept as the fraction slopeNum / slopeDen (0/1 when undefined).
analyzeSeries(series) ==
    IF TooShort(series)
    THEN [ok |-> FALSE, drops |-> 0, instabilityCount |-> 0, pairs |-> 0,
          slopeNum |-> 0, slopeDen |-> 1, samples |-> Len(series)]
    ELSE LET n == Len(series) - 1
             delta == [i \in 1..n |-> PointValue(series[i + 1]) - PointValue(series[i])]
             y == [i \in 1..n |-> PointValue(series[i + 1])]
             sumX == SumTo([i \in 1..n |-> i], n)
             sumY == SumTo(y, n)
             sumXY == SumTo([i \in 1..n |-> i * y[i]], n)
             sumXX == SumTo([i \in 1..n |-> i * i], n)
             denom == n * sumXX - sumX * sumX
             hasSlope == n >= 2 /\ denom # 0
         IN [ok |-> TRUE,
             drops |-> Cardinality({i \in 1..n : IsDrop(delta[i])}),
             instabilityCount |->
                 Cardinality({i \in 1..n : IsInstability(delta[i])}),
             pairs |-> n,
             slopeNum |-> IF hasSlope THEN n * sumXY - sumX * sumY ELSE 0,
             slopeDen |-> IF hasSlope THEN denom ELSE 1,
             samples |-> Len(series)]

\* Rule 1 with > for >= on the number of drops.
MutRecurringDropsStrict(a) == a.drops > DROP_COUNT_THRESHOLD /\ a.samples >= 6

\* analysis.drops >= DROP_COUNT_THRESHOLD && analysis.samples >= 6
RecurringDrops(a) == a.drops >= DROP_COUNT_THRESHOLD /\ a.samples >= 6

\* Rule 2 with > for >=.
MutHighInstabilityStrict(a) ==
    a.instabilityCount * INSTABILITY_FRACTION_DEN
        > INSTABILITY_FRACTION_NUM * Max(1, a.pairs)

\* analysis.instabilityFrac >= INSTABILITY_FRACTION
HighInstability(a) ==
    a.instabilityCount * INSTABILITY_FRACTION_DEN
        >= INSTABILITY_FRACTION_NUM * Max(1, a.pairs)

\* analysis.slope < -2 (slopeDen is positive whenever the slope is defined)
DownwardTrend(a) == a.slopeNum < (0 - 2) * a.slopeDen

\* systemValidation.js never declares TRUST_THRESHOLD, so evaluating
\* Math.max(10, TRUST_THRESHOLD - 5) raises a ReferenceError.
TRUST_THRESHOLD_declared == FALSE

Decision(action, reason, newThreshold) ==
    [action |-> action, reason |-> reason, newThreshold |-> newThreshold]

\* The decision rules of systemValidate on a built series.
decide(series) ==
    LET analysis == analyzeSeries(series)
    IN IF ~analysis.ok THEN Decision("insufficient_data", Null, Undefined)
       ELSE IF RecurringDrops(analysis)
       THEN Decision("confirm_unreliable", "recurring_drops", Undefined)
       ELSE IF HighInstability(analysis)
       THEN Decision("flag_for_review", "high_instability", Undefined)
       ELSE IF DownwardTrend(analysis)
       THEN IF TRUST_THRESHOLD_declared
            THEN Decision("adjust_threshold_lower", "downward_trend",
                          Max(10, DEFAULT_THRESHOLD - 5))
            ELSE Decision("validation_error", Null, Undefined)
       ELSE Decision("no_action", Null, Undefined)

\* The outcomes of provider.getLogs during one analysis.
FetchOutcomes == {"ok", "getLogs_failed"}

\* systemValidate: local is the local history read when the analysis started,
\* chain the ledger when getLogs answers.  With no contract address the
\* ledger is not queried; a failed query leaves the on-chain part empty.
\* buildTrustSeries without the try around the fetch: the error reaches the
\* catch of systemValidate.
MutFetchErrorPropagates(local) == Decision("validation_error", Null, Undefined)

\* The catch around the fetch in buildTrustSeries: onchain = [], and the
\* analysis goes on with the local history.
OnFetchError(local) == decide(buildTrustSeries(local, <<>>))

systemValidate(hasAddress, local, chain, groupId, fetch) ==
    IF hasAddress /\ fetch # "ok"
    THEN OnFetchError(local)
    ELSE decide(buildTrustSeries(local,
                    IF hasAddress THEN fetchOnChainTrustEvents(chain, groupId)
                    ELSE <<>>))

\* ------------------------------------------------------------ ledger adapter
NoDecision == Decision(Null, Null, Undefined)
NoResult == [thrown |-> FALSE, txHash |-> Undefined, hash |-> <<>>,
             success |-> FALSE, error |-> Null]

\* The outcomes of one ledger write: the adapter has no contract or no wallet;
\* sending the transaction fails; the transaction is sent and confirmed; it is
\* sent but neither tx.wait nor waitForTransaction returns a receipt.
LedgerOutcomes(hasContract, hasWallet) ==
    IF ~hasContract \/ ~hasWallet THEN {"disabled"}
    ELSE {"send_error", "confirmed", "wait_failed"}

\* processAndLog(evt): what the promise settles to.  The whole body sits in a
\* try whose catch returns a result, so the promise is never rejected.
processAndLog(evt, outcome, txId) ==
    CASE outcome = "disabled" ->
            [thrown |-> FALSE, txHash |-> Undefined, hash |-> keccakHash(evt),
             success |-> FALSE, error |-> "on-chain disabled"]
      [] outcome = "send_error" ->
            [thrown |-> FALSE, txHash |-> Undefined, hash |-> keccakHash(evt),
             success |-> FALSE, error |-> "send failed"]
      [] OTHER ->
            [thrown |-> FALSE, txHash |-> txId, hash |-> keccakHash(evt),
             success |-> TRUE, error |-> Null]

\* The TrustEvent that contract.logTrustEvent emits for evt.
TrustEvent(evt) ==
    [groupId |-> evt.groupId, oldTS |-> evt.oldTS, newTS |-> evt.newTS,
     reason |-> evt.reason, dataHash |-> keccakHash(evt), ts |-> evt.ts]

\* ------------------------------------------------------------------ records
\* storedEvent of POST /data (a field the object does not have is
\* Undefined / Null; flagged is read for its truthiness only).
StoredEvent(payload, dataHash, groupId, trustA, trustB, localFlagged) ==
    [eventId |-> payload.eventId, deviceId |-> payload.deviceId,
     groupId |-> groupId, payload |-> payload, dataHash |-> dataHash,
     trustA |-> trustA, trustB |-> trustB, localFlagged |-> localFlagged,
     flagged |-> FALSE, systemDecision |-> NoDecision,
     oldTS |-> Undefined, newTS |-> Undefined, reason |-> Null, ts |-> Undefined,
     receivedAt |-> Undefined,
     stage |-> Null, blockchain |-> NoResult, error |-> Null]

\* queueItem of POST /data, built at the second now: an object of its own,
\* without the receivedAt of storedEvent.
QueueItem(stored, decision, now) ==
    [stored EXCEPT
        !.oldTS = Coalesce(stored.payload.oldTS, stored.trustA),
        !.newTS = Coalesce(stored.payload.newTS, stored.trustB),
        !.reason = IF stored.payload.reason # Null THEN stored.payload.reason
                   ELSE IF decision.reason # Null THEN decision.reason
                   ELSE "LOW_TRUST",
        !.ts = OrElse(stored.payload.ts, now * 1000) \div 1000,
        !.receivedAt = Undefined,
        !.localFlagged = FALSE,
        !.flagged = TRUE,
        !.systemDecision = decision]

NoEvent ==
    StoredEvent([eventId |-> 0, deviceId |-> Null, groupId |-> Null,
                 trustA |-> Undefined, trustB |-> Undefined, oldTS |-> Undefined,
                 newTS |-> Undefined, reason |-> Null, ts |-> Undefined],
                <<>>, Null, Undefined, Undefined, FALSE)

AtStage(evt, stage) == [evt EXCEPT !.stage = stage]

\* One io.emit.
Message(topic, evt, stage, txHash) ==
    [topic |-> topic, eventId |-> evt.eventId, stage |-> stage,
     hash |-> evt.dataHash, groupId |-> evt.groupId, txHash |-> txHash]

\* The telemetry snapshot carries no event id; its hash field names the event.
Telemetry(evt) ==
    [topic |-> "telemetry", eventId |-> 0, stage |-> Null,
     hash |-> evt.dataHash, groupId |-> evt.groupId, txHash |-> Undefined]

\* system_alert and threshold_update name the device and the group only.
Alert(topic, evt) ==
    [topic |-> topic, eventId |-> 0, stage |-> Null,
     hash |-> <<>>, groupId |-> evt.groupId, txHash |-> Undefined]

Response(status, flagged, hash, action) ==
    [status |-> status, flagged |-> flagged, hash |-> hash, action |-> action]
NoResponse == Response(0, FALSE, <<>>, Null)

\* ---------------------------------------------------------- initial ledger
HistoricEvent(groupId, newTS, ts) ==
    [groupId |-> groupId, oldTS |-> newTS, newTS |-> newTS,
     reason |-> "LOW_TRUST", dataHash |-> keccakHash(NoEvent), ts |-> ts]

History(groupId, values) ==
    [i \in 1..Len(values) |-> HistoricEvent(groupId, values[i], i)]

\* What the ledger may hold of group-1 when the gateway starts.
DropsHistory == History("group-1", <<100, 90, 80, 70, 60, 50>>)
InitialChains ==
    { <<>>,
      DropsHistory,
      History("group-1", <<100, 92, 100>>),
      History("group-1", <<68, 65, 62>>) }

\* thresholds.json when the gateway starts.
InitialThresholds ==
    { [g \in Groups |-> Undefined],
      [g \in Groups |-> IF g = "group-2" THEN 59 ELSE Undefined] }

\* -------------------------------------------------------------------- state
VARIABLES
    hasContract,      \* TRUSTLOGGER_ADDRESS is set (and the ABI loaded)
    hasWallet,        \* DEPLOYER_PRIVATE_KEY is set
    events,           \* events.json: the sequence of stored records
    thresholds,       \* the thresholds map
    published,        \* every io.emit so far, in order
    writeQueue,       \* the wrappers {item, attempts} waiting
    processingQueue,  \* the flag of the same name
    req,              \* per submission: where its handler stands, its locals, and
                      \* how the getLogs of its analysis ended
    response,         \* per submission: what res.json / res.status sent
    worker,           \* per submission: the processQueue call its enqueue started
    chain,            \* the TrustEvent logs of the contract
    txCount,          \* transactions sent so far
    calls,            \* every processAndLog call so far, with its outcome
    enqueued,         \* the event ids given to enqueueChainLog, in order
    arg,              \* the input of the function a function specification applies
    ret,              \* what that function returned
    clock             \* Date.now(), in seconds

vars == <<hasContract, hasWallet, events, thresholds, published, writeQueue,
          processingQueue, req, response, worker, chain, txCount, calls,
          enqueued, arg, ret, clock>>

\* The variables of the running gateway.
gateway == <<hasContract, hasWallet, events, thresholds, published, writeQueue,
             processingQueue, req, response, worker, chain, txCount, calls,
             enqueued, clock>>

NoWrapper == [item |-> NoEvent, attempts |-> 0]
IdleReq == [pc |-> "idle", key |-> Null, stored |-> NoEvent,
            groupThreshold |-> Undefined, local |-> <<>>, fetch |-> Null]
NoWorker == [pc |-> "none", wrapper |-> NoWrapper, timerMs |-> 0]

GatewayInit ==
    /\ hasContract \in BOOLEAN
    /\ hasWallet \in BOOLEAN
    /\ hasWallet => hasContract
    /\ events = <<>>
    /\ thresholds \in InitialThresholds
    /\ published = <<>>
    /\ writeQueue = <<>>
    /\ processingQueue = FALSE
    /\ req = [r \in Reqs |-> IdleReq]
    /\ response = [r \in Reqs |-> NoResponse]
    /\ worker = [r \in Reqs |-> NoWorker]
    /\ chain \in (IF hasContract /\ hasWallet THEN InitialChains
                  ELSE IF hasContract THEN {DropsHistory}
                  ELSE {<<>>})
    /\ txCount = 0
    /\ calls = <<>>
    /\ enqueued = <<>>
    /\ clock = 0

Init ==
    /\ GatewayInit
    /\ arg = <<>>
    /\ ret = <<>>

\* QueueSpec starts with no thresholds file, an empty ledger, and the adapter
\* either fully configured or not at all.
QueueInit ==
    /\ Init
    /\ hasContract = hasWallet
    /\ chain = <<>>
    /\ \A g \in Groups : thresholds[g] = Undefined

\* ------------------------------------------------------------- write queue
\* enqueueChainLog with the processingQueue test the wrong way round.
MutStartsWorkerWhenBusy(processing) == processing

\* enqueueChainLog without the processingQueue test.
MutStartsWorkerAlways(processing) == TRUE

\* enqueueChainLog: whether it starts processQueue.
StartsWorker(processing) == ~processing

\* writeQueue[0] for writeQueue.shift(): the item taken stays in the queue.
MutTakeKeepsHead(queue) == [wrapper |-> Head(queue), rest |-> queue]

\* writeQueue.pop() for writeQueue.shift().
MutTakeLast(queue) ==
    [wrapper |-> queue[Len(queue)], rest |-> SubSeq(queue, 1, Len(queue) - 1)]

\* The item the worker takes: writeQueue.shift().
TakeFrom(queue) == [wrapper |-> Head(queue), rest |-> Tail(queue)]

\* The loop without the final processingQueue = false.
MutLoopHeadKeepsFlag(queue) ==
    IF Len(queue) > 0
    THEN [queue |-> Tail(queue), processing |-> TRUE,
          worker |-> [pc |-> "submitting", wrapper |-> Head(queue), timerMs |-> 0]]
    ELSE [queue |-> queue, processing |-> TRUE,
          worker |-> [pc |-> "exited", wrapper |-> [item |-> NoEvent, attempts |-> 0],
                      timerMs |-> 0]]

\* The head of the while loop of processQueue, entered with queue as the
\* write queue: either the next wrapper is taken and processAndLog is called
\* on its item, or the loop ends and processingQueue is cleared.
LoopHead(queue) ==
    IF Len(queue) > 0
    THEN [queue |-> TakeFrom(queue).rest, processing |-> TRUE,
          worker |-> [pc |-> "submitting", wrapper |-> TakeFrom(queue).wrapper,
                      timerMs |-> 0]]
    ELSE [queue |-> queue, processing |-> FALSE,
          worker |-> [pc |-> "exited", wrapper |-> NoWrapper, timerMs |-> 0]]

\* The processAndLog call a worker state stands for.
CallOf(w) == [eventId |-> w.wrapper.item.eventId, attempts |-> w.wrapper.attempts,
              outcome |-> "pending"]
CallsAfter(cs, w) == IF w.pc = "submitting" THEN Append(cs, CallOf(w)) ELSE cs

\* The retry test of the catch branch.
MayRetry(nextAttempt) == nextAttempt < maxAttempts
backoffMs(nextAttempt) == BACKOFF_BASE_MS * Pow2(nextAttempt)

\* ------------------------------------------------------------- POST /data
\* groupId of POST /data: payload.groupId, else payload.deviceId, else group-1.
ResolveGroupId(payload) ==
    IF payload.groupId # Null THEN payload.groupId
    ELSE IF payload.deviceId # Null THEN payload.deviceId
    ELSE "group-1"

\* The handler without its two arrival emits.
MutNoArrivalMessages(stored) == <<>>

\* The two live-state emits that follow the received record.
ArrivalMessages(stored) ==
    << Message("event_update", stored, "received", Undefined), Telemetry(stored) >>

\* POST /data from the arrival of the request to its first await: the key
\* check, the hash, the local threshold rule, the received record, the two
\* live-state emits, and the start of systemValidate, which reads the local
\* history before it waits for the ledger.  An error thrown on the way lands
\* in the catch of the handler, which answers 500.  S: the storage outcomes, Keys:
\* the credentials, Shapes: the payload shapes the environment may produce.
PostData(r, S, Keys, Shapes) ==
    /\ req[r].pc = "idle"
    /\ \A q \in Reqs : q < r => req[q].pc # "idle"
    /\ \E key \in Keys, payload \in Payloads(r, Shapes), so \in S :
        IF ~verifyApiKey(key)
        THEN /\ response' = [response EXCEPT ![r] = Response(401, FALSE, <<>>, Null)]
             /\ req' = [req EXCEPT ![r] = [IdleReq EXCEPT !.pc = "done", !.key = key]]
             /\ UNCHANGED <<events, published>>
        ELSE IF AppendThrows(so)
        THEN /\ response' = [response EXCEPT ![r] = Response(500, FALSE, <<>>, Null)]
             /\ req' = [req EXCEPT ![r] = [IdleReq EXCEPT !.pc = "done", !.key = key]]
             /\ UNCHANGED <<events, published>>
        ELSE LET dataHash == keccakHash(payload)
                 groupId == ResolveGroupId(payload)
                 deviceId == IF payload.deviceId # Null THEN payload.deviceId
                             ELSE "unknown"
                 trustA == Coalesce(payload.trustA, 100)
                 trustB == Coalesce(payload.trustB, 100)
                 groupThreshold == computeGroupThreshold(thresholds, groupId)
                 localFlagged == LocalFlagged(trustA, trustB, groupThreshold)
                 stored == [StoredEvent(payload, dataHash, groupId, trustA, trustB,
                                        localFlagged)
                               EXCEPT !.deviceId = deviceId, !.receivedAt = clock]
                 file == appendEvent(events, AtStage(stored, "received"), so)
             IN /\ events' = file
                /\ published' = published \o ArrivalMessages(stored)
                /\ req' = [req EXCEPT ![r] =
                       [pc |-> "validating", key |-> key, stored |-> stored,
                        groupThreshold |-> groupThreshold,
                        local |-> readLocalEventsForGroup(file, groupId, deviceId,
                                                          clock),
                        fetch |-> Null]]
                /\ UNCHANGED response
    /\ UNCHANGED <<hasContract, hasWallet, thresholds, writeQueue, processingQueue,
                   worker, chain, txCount, calls, enqueued, arg, ret, clock>>

\* The emits that follow the system-validation record, by decision.
DecisionMessages(stored, decision) ==
    IF decision.action \in {"confirm_unreliable", "flag_for_review"}
    THEN <<Alert("system_alert", stored)>>
    ELSE IF decision.action = "adjust_threshold_lower"
    THEN <<Alert("threshold_update", stored)>>
    ELSE <<>>

\* The threshold branch taken for the review decision as well.
MutAdjustsOnReview(decision) ==
    decision.action \in {"adjust_threshold_lower", "flag_for_review"}

\* The test of the branch of POST /data that writes thresholds[groupId] and
\* saves the map.
AdjustsThreshold(decision) == decision.action = "adjust_threshold_lower"

\* finalFlagged that also flags a submission whose analysis failed.
MutFinalFlaggedOnError(storedFlagged, localFlagged, decision) ==
    \/ storedFlagged
    \/ localFlagged
    \/ decision.action \in {"confirm_unreliable", "validation_error"}

\* finalFlagged without the decision of the analysis.
MutFinalFlaggedLocalOnly(storedFlagged, localFlagged, decision) == localFlagged

\* finalFlagged of POST /data.
FinalFlagged(storedFlagged, localFlagged, decision) ==
    storedFlagged \/ localFlagged \/ decision.action = "confirm_unreliable"

\* A handler that leaves the answer to the end of the ledger write.
MutAnswerAfterChain(item, decision) == Response(0, FALSE, <<>>, Null)

\* What the handler answers once enqueueChainLog has returned.
QueuedResponse(item, decision) == Response(200, TRUE, item.dataHash, decision.action)

\* POST /data from the settling of systemValidate to the response: the
\* system-validation record, the side effects of the decision, the pre-chain
\* record, and either the not-flagged answer or enqueueChainLog (which may
\* start processQueue, run to its first await) and the queued answer.
\* systemValidate catches every error itself and settles to a decision, so
\* the handler's own catch (the system-validation-error record) has no way in.
\* F: the outcomes of getLogs the environment may produce.
DataValidated(r, S, F) ==
    /\ req[r].pc = "validating"
    /\ \E fetch \in (IF hasContract THEN F ELSE {"ok"}),
          so1 \in S, so2 \in S, so3 \in S :
      \E decision \in {systemValidate(hasContract, req[r].local, chain,
                                       req[r].stored.groupId, fetch)} :
        LET st == req[r].stored
            st1 == [st EXCEPT !.systemDecision = decision]
            file1 == appendEvent(events, AtStage(st1, "system-validation"), so1)
            st2 == IF decision.action = "confirm_unreliable"
                   THEN [st1 EXCEPT !.flagged = TRUE] ELSE st1
            finalFlagged == FinalFlagged(st2.flagged, st.localFlagged, decision)
            st3 == [st2 EXCEPT !.flagged = finalFlagged]
            file2 == appendEvent(file1, AtStage(st3, "pre-chain"), so2)
            item == QueueItem(st3, decision, clock)
            queue1 == Append(writeQueue, [item |-> item, attempts |-> 0])
            start == IF StartsWorker(processingQueue) THEN LoopHead(queue1)
                     ELSE [queue |-> queue1, processing |-> processingQueue,
                           worker |-> worker[r]]
        IN /\ thresholds' =
                  IF AdjustsThreshold(decision)
                  THEN [thresholds EXCEPT ![st.groupId] =
                           OrElse(decision.newThreshold, req[r].groupThreshold)]
                  ELSE thresholds
           /\ published' = published
                  \o <<Message("event_update", st1, "system-validation", Undefined)>>
                  \o DecisionMessages(st1, decision)
                  \o <<Message("event_update", st3, "pre-chain", Undefined)>>
           /\ req' = [req EXCEPT ![r].pc = "done", ![r].stored = st3,
                                  ![r].fetch = IF hasContract THEN fetch ELSE Null]
           /\ IF ~finalFlagged
              THEN /\ events' = file2
                   /\ response' = [response EXCEPT ![r] =
                          Response(200, FALSE, st.dataHash, decision.action)]
                   /\ UNCHANGED <<writeQueue, processingQueue, worker, calls,
                                  enqueued>>
              ELSE /\ events' = appendEvent(file2, AtStage(item, "queued"), so3)
                   /\ enqueued' = Append(enqueued, item.eventId)
                   /\ writeQueue' = start.queue
                   /\ processingQueue' = start.processing
                   /\ worker' = [worker EXCEPT ![r] = start.worker]
                   /\ calls' = CallsAfter(calls, start.worker)
                   /\ response' = [response EXCEPT ![r] =
                          QueuedResponse(item, decision)]
    /\ UNCHANGED <<hasContract, hasWallet, chain, txCount, arg, ret, clock>>

\* ------------------------------------------------------------ processQueue
\* The pending call of the calls so far that is about wrapper.
PendingCall(cs, wrapper) ==
    CHOOSE i \in 1..Len(cs) :
        /\ cs[i].eventId = wrapper.item.eventId
        /\ cs[i].attempts = wrapper.attempts
        /\ cs[i].outcome = "pending"

\* txHash of the flagged-event summary: (result.txHash || ...) || null.
SummaryTxHash(result) == OrElse(result.txHash, Undefined)

\* The emits of the success path.
SuccessMessages(item, result) ==
    <<Message("event_update", item, "final", result.txHash)>>
    \o (IF item.flagged
        THEN <<Message("flaggedEvent", item, Null, SummaryTxHash(result))>>
        ELSE <<>>)

\* processQueue from the settling of processAndLog to the next await (or to
\* the end of the worker).  A fulfilled promise: the post-chain record, the
\* emits, the pause.  A rejected one: the re-queue and the backoff wait while
\* retries are left, else the post-chain-failed record, its emit, and the
\* head of the loop again.
SubmitReturns(w, S) ==
    /\ worker[w].pc = "submitting"
    /\ \E outcome \in LedgerOutcomes(hasContract, hasWallet), so \in S :
        LET wrapper == worker[w].wrapper
            item == wrapper.item
            nextAttempt == wrapper.attempts + 1
            sent == outcome \in {"confirmed", "wait_failed"}
            result == processAndLog(item, outcome, txCount + 1)
            settled == [calls EXCEPT ![PendingCall(calls, wrapper)].outcome = outcome]
            failed == [AtStage(item, "post-chain-failed") EXCEPT !.error = result.error]
            next == LoopHead(writeQueue)
        IN /\ chain' = IF outcome = "confirmed" THEN Append(chain, TrustEvent(item))
                       ELSE chain
           /\ txCount' = IF sent THEN txCount + 1 ELSE txCount
           /\ IF ~result.thrown
              THEN /\ events' = appendEvent(events,
                          [AtStage(item, "post-chain") EXCEPT !.blockchain = result],
                          so)
                   /\ published' = published \o SuccessMessages(item, result)
                   /\ worker' = [worker EXCEPT ![w] =
                          [pc |-> "pause", wrapper |-> NoWrapper, timerMs |-> PAUSE_MS]]
                   /\ calls' = settled
                   /\ UNCHANGED <<writeQueue, processingQueue>>
              ELSE IF MayRetry(nextAttempt)
              THEN /\ writeQueue' = Append(writeQueue,
                          [item |-> item, attempts |-> nextAttempt])
                   /\ worker' = [worker EXCEPT ![w] =
                          [pc |-> "backoff", wrapper |-> NoWrapper,
                           timerMs |-> backoffMs(nextAttempt)]]
                   /\ calls' = settled
                   /\ UNCHANGED <<events, published, processingQueue>>
              ELSE /\ events' = appendEvent(events, failed, so)
                   /\ published' = published \o
                          <<Message("event_update", item, "post-chain-failed", Undefined)>>
                   /\ writeQueue' = next.queue
                   /\ processingQueue' = next.processing
                   /\ worker' = [worker EXCEPT ![w] = next.worker]
                   /\ calls' = CallsAfter(settled, next.worker)
    /\ UNCHANGED <<hasContract, hasWallet, thresholds, req, response, enqueued,
                   arg, ret, clock>>

\* processQueue when the pause or the backoff timer fires: the head of the
\* loop.
TimerFires(w) ==
    /\ worker[w].pc \in {"pause", "backoff"}
    /\ LET next == LoopHead(writeQueue)
       IN /\ writeQueue' = next.queue
          /\ processingQueue' = next.processing
          /\ worker' = [worker EXCEPT ![w] = next.worker]
          /\ calls' = CallsAfter(calls, next.worker)
    /\ UNCHANGED <<hasContract, hasWallet, events, thresholds, published, req,
                   response, chain, txCount, enqueued, arg, ret, clock>>

\* ------------------------------------------------------------ specification
\* One step of the gateway with N submissions in all.
Step(N, S, Keys, Shapes, F) ==
    \E r \in 1..N :
        \/ PostData(r, S, Keys, Shapes)
        \/ DataValidated(r, S, F)
        \/ SubmitReturns(r, S)
        \/ TimerFires(r)

Next == Step(MaxReqs, StorageReliable, Credentials, PayloadShapes, FetchOutcomes)

Spec == Init /\ [][Next]_vars

\* The write queue under load: every submission is authenticated and flagged,
\* and the ledger answers the reads of the analysis.
QueueNext ==
    Step(MaxQueueReqs, StorageReliable, {GATEWAY_API_KEY}, QueueShapes, {"ok"})

QueueSpec == QueueInit /\ [][QueueNext]_vars

\* Timers fire and ledger calls return.
WorkerFairness ==
    \A w \in Reqs :
        /\ WF_vars(SubmitReturns(w, StorageReliable))
        /\ WF_vars(TimerFires(w))

FairQueueSpec == QueueSpec /\ WorkerFairness

\* ------------------------------------------------------------- observations
Terminal == {"post-chain", "post-chain-failed"}

HasRecord(e, stage) ==
    \E i \in 1..Len(events) : events[i].eventId = e /\ events[i].stage = stage
RecordIndex(e, stage) ==
    CHOOSE i \in 1..Len(events) : events[i].eventId = e /\ events[i].stage = stage
HasTerminal(e) == \E st \in Terminal : HasRecord(e, st)

Published(topic, e, stage) ==
    \E i \in 1..Len(published) :
        /\ published[i].topic = topic
        /\ published[i].eventId = e
        /\ published[i].stage = stage

IsEnqueued(e) == \E i \in 1..Len(enqueued) : enqueued[i] = e
Waiting(e) == \E i \in 1..Len(writeQueue) : writeQueue[i].item.eventId = e
CallsOf(e) == {i \in 1..Len(calls) : calls[i].eventId = e}
FirstCall(e) == CHOOSE i \in CallsOf(e) : \A j \in CallsOf(e) : i <= j
InFlight == {i \in 1..Len(calls) : calls[i].outcome = "pending"}
FailedOutcome(o) == o \in {"disabled", "send_error"}
ActiveWorkers == {w \in Reqs : worker[w].pc \in {"submitting", "pause", "backoff"}}

\* The item of e has left the queue for good: it was submitted, and it is
\* neither waiting nor in flight.
Finished(e) ==
    /\ CallsOf(e) # {}
    /\ ~Waiting(e)
    /\ \A i \in CallsOf(e) : calls[i].outcome # "pending"

\* ------------------------------------------------------------------- claims
\* C1: an item whose ledger submissions fail is submitted 4 times in a row
\* and no more: once it has left the queue it has failed 4 times, it has a
\* post-chain-failed record carrying the error, and the failure was published;
\* no item is submitted a 5th time.
C1_RetryBound ==
    \A e \in Reqs :
        /\ Cardinality(CallsOf(e)) <= 4
        /\ (Finished(e) /\ \A i \in CallsOf(e) : FailedOutcome(calls[i].outcome))
            => /\ Cardinality(CallsOf(e)) = 4
               /\ \E i \in 1..Len(events) :
                      /\ events[i].eventId = e
                      /\ events[i].stage = "post-chain-failed"
                      /\ events[i].error # Null
               /\ Published("event_update", e, "post-chain-failed")

\* C2: a post-chain record is appended only for an item whose ledger submit
\* succeeded; an item whose submit failed is never recorded as post-chain.
C2_PostChainOnlyAfterSuccess ==
    \A i \in 1..Len(events) :
        events[i].stage = "post-chain"
            => /\ events[i].blockchain.success
               /\ \E c \in CallsOf(events[i].eventId) :
                      ~FailedOutcome(calls[c].outcome) /\ calls[c].outcome # "pending"

\* C3: a flagged-event summary is published only after the ledger submission
\* of its item has succeeded, and it carries a non-null transaction id.
C3_SummaryCarriesTransaction ==
    \A i \in 1..Len(published) :
        published[i].topic = "flaggedEvent"
            => /\ published[i].txHash # Undefined
               /\ \E c \in CallsOf(published[i].eventId) :
                      ~FailedOutcome(calls[c].outcome) /\ calls[c].outcome # "pending"

\* C4: at most one ledger submission is in flight, and at most one queue
\* worker is draining, in every reachable state.
C4_OneSubmissionInFlight ==
    /\ Cardinality(InFlight) <= 1
    /\ Cardinality(ActiveWorkers) <= 1

\* A submission is in flight, another item waits, and a third submission is
\* being analysed.
C4_Witness ==
    /\ Cardinality(InFlight) = 1
    /\ Len(writeQueue) >= 1
    /\ \E r \in Reqs : req[r].pc = "validating"

\* C5: the first ledger submission of an item enqueued earlier comes before
\* the first submission of every item enqueued later.
C5_FifoFirstSubmission ==
    \A i, j \in 1..Len(enqueued) :
        (i < j /\ CallsOf(enqueued[j]) # {})
            => /\ CallsOf(enqueued[i]) # {}
               /\ FirstCall(enqueued[i]) < FirstCall(enqueued[j])

\* Three items were enqueued, the third while the first was still with the
\* worker (so two items waited at once), and all three have been submitted.
C5_Witness ==
    /\ Len(enqueued) = 3
    /\ \A i \in 1..3 : CallsOf(enqueued[i]) # {}
    /\ HasRecord(enqueued[3], "queued")
    /\ HasTerminal(enqueued[1])
    /\ \A st \in Terminal :
          HasRecord(enqueued[1], st)
              => RecordIndex(enqueued[3], "queued") < RecordIndex(enqueued[1], st)

\* C6: every enqueued item eventually has a post-chain or a post-chain-failed
\* record, when timers fire and ledger calls return.
C6_EventuallyTerminal ==
    \A e \in Reqs : IsEnqueued(e) ~> HasTerminal(e)

\* Three items went through the queue and each has its terminal record.
C6_Witness ==
    /\ Len(enqueued) = 3
    /\ \A i \in 1..3 : HasTerminal(enqueued[i])

\* C7: a flagged submission is answered as soon as it is enqueued: every
\* enqueued item has its response, and so has every item with a terminal
\* record.
C7_AnswerBeforeLedger ==
    /\ \A e \in Reqs :
          IsEnqueued(e) => response[e].status = 200 /\ response[e].flagged
    /\ \A i \in 1..Len(events) :
          events[i].stage \in Terminal => response[events[i].eventId].status = 200

\* An item is answered while it waits behind another waiting item and a
\* submission in flight, with no terminal record yet.
C7_Witness ==
    /\ Cardinality(InFlight) = 1
    /\ Len(writeQueue) >= 2
    /\ LET e == writeQueue[Len(writeQueue)].item.eventId
       IN response[e].status = 200 /\ response[e].flagged /\ ~HasTerminal(e)

\* The analysis of r has started.
AnalysisStarted(r) == req[r].pc = "validating" \/ response[r].status = 200

IsValidation(stage) == stage \in {"system-validation", "system-validation-error"}

\* C8: once the analysis of a submission has started, its received record is
\* in the log, its event_update and telemetry are published, and the local
\* history the analysis reads holds the point of the received record; the
\* validation record and its update come after them.
C8_ReceivedBeforeAnalysis ==
    \A r \in Reqs :
        AnalysisStarted(r)
            => /\ HasRecord(r, "received")
               /\ Published("event_update", r, "received")
               /\ \E i \in 1..Len(published) :
                      /\ published[i].topic = "telemetry"
                      /\ published[i].hash = req[r].stored.dataHash
               /\ \E k \in 1..Len(req[r].local) :
                      req[r].local[k] = LocalPoint(events[RecordIndex(r, "received")], clock)
               /\ req[r].pc = "validating"
                      => \A i \in 1..Len(events) :
                             events[i].eventId = r => events[i].stage = "received"
               /\ \A i \in 1..Len(events) :
                      (events[i].eventId = r /\ IsValidation(events[i].stage))
                          => RecordIndex(r, "received") < i
               /\ \A i \in 1..Len(published) :
                      (published[i].eventId = r /\ IsValidation(published[i].stage))
                          => \E j, k \in 1..(i - 1) :
                                 /\ published[j].topic = "event_update"
                                 /\ published[j].eventId = r
                                 /\ published[j].stage = "received"
                                 /\ published[k].topic = "telemetry"
                                 /\ published[k].hash = req[r].stored.dataHash

\* One submission whose analysis failed has been answered, and the analysis
\* of another is under way.
C8_Witness ==
    /\ \E r \in Reqs : response[r].action = "validation_error"
    /\ \E r \in Reqs : req[r].pc = "validating"

\* C9: the step that handles a submission whose credential is missing or
\* wrong answers 401 and changes nothing else: not the log, the queue, the
\* thresholds, the published messages, the worker or the ledger.
C9_RejectedWithoutEffect ==
    [][\A r \in Reqs :
          (req[r].pc = "idle" /\ req'[r].pc # "idle" /\ req'[r].key # GATEWAY_API_KEY)
              => /\ response'[r].status = 401
                 /\ UNCHANGED <<events, writeQueue, thresholds, published,
                                processingQueue, worker, chain, txCount, calls,
                                enqueued>>]_vars

\* A submission with a wrong key was rejected while the log already held
\* records and an item was with the worker.
C9_Witness ==
    /\ \E r \in Reqs : response[r].status = 401 /\ req[r].key = "wrong-key"
    /\ Len(events) > 0
    /\ Cardinality(InFlight) = 1

\* C10: in the step that takes a submission in, the local flag is exactly
\* trustA < threshold or trustB < threshold, with the threshold of the group
\* in the map at that moment (60 when it has none) and a missing score read
\* as 100.
C10_StrictThresholdRule ==
    [][\A r \in Reqs :
          (req[r].pc = "idle" /\ req'[r].pc = "validating")
              => LET p == req'[r].stored.payload
                     t == IF thresholds[p.groupId] # Undefined
                          THEN thresholds[p.groupId] ELSE 60
                     a == IF p.trustA # Undefined THEN p.trustA ELSE 100
                     b == IF p.trustB # Undefined THEN p.trustB ELSE 100
                 IN req'[r].stored.localFlagged <=> (a < t \/ b < t)]_vars

\* With group-2 at threshold 59: a submission of group-2 with a score of 59
\* is not flagged, one of group-1 (threshold 60) with a score of 59 is.
C10_Witness ==
    /\ thresholds["group-2"] = 59
    /\ \E r \in Reqs :
          /\ req[r].pc # "idle" /\ req[r].stored.groupId = "group-2"
          /\ req[r].stored.trustA = 59 /\ req[r].stored.trustB = 100
          /\ ~req[r].stored.localFlagged
    /\ \E r \in Reqs :
          /\ req[r].pc # "idle" /\ req[r].stored.groupId = "group-1"
          /\ req[r].stored.trustA = 59 /\ req[r].stored.trustB = 100
          /\ req[r].stored.localFlagged

\* The handler of r has answered an authenticated submission.
Answered(r) == req[r].pc = "done" /\ response[r].status = 200

\* C11: an answered submission was enqueued, and answered flagged:true, if and
\* only if it was locally flagged or its decision is confirm_unreliable; a
\* submission that was not enqueued is not in the write queue and is never
\* submitted to the ledger.
C11_EnqueuedIffFlagged ==
    \A r \in Reqs :
        /\ Answered(r) =>
              LET due == \/ req[r].stored.localFlagged
                         \/ req[r].stored.systemDecision.action = "confirm_unreliable"
              IN /\ IsEnqueued(r) <=> due
                 /\ response[r].flagged <=> due
        /\ ~IsEnqueued(r) => (~Waiting(r) /\ CallsOf(r) = {})
        /\ IsEnqueued(r) => Answered(r)

\* A submission above its threshold was enqueued on confirm_unreliable and
\* submitted to the ledger, and another one was answered flagged:false.
C11_Witness ==
    \E r, q \in Reqs :
        /\ Answered(r) /\ ~req[r].stored.localFlagged
        /\ req[r].stored.systemDecision.action = "confirm_unreliable"
        /\ IsEnqueued(r) /\ CallsOf(r) # {}
        /\ Answered(q) /\ ~response[q].flagged /\ ~IsEnqueued(q)

\* ------------------------------------------------ the analysis as a function
\* The longest local history of a trend, in points.
MaxSeriesLen == 9
\* The longest local history and the longest ledger history of a merge.
MaxMergeLen == 2

\* A point as readLocalEventsForGroup returns it.
Point(groupId, value, ts) ==
    [groupId |-> groupId, oldTS |-> value, newTS |-> value, ts |-> ts,
     source |-> "local"]

\* The changes of the score from one point of a trend to the next: a drop, a
\* small step down, a small step up.
TrendDeltas == {0 - 10, 0 - 5, 5}

RECURSIVE ValueAfter(_, _)
ValueAfter(deltas, n) == IF n = 0 THEN 100 ELSE ValueAfter(deltas, n - 1) + deltas[n]

\* The local history of group-1 that starts at 100 and moves by deltas, one
\* point per second.
Trend(deltas) ==
    [i \in 1..(Len(deltas) + 1) |-> Point("group-1", ValueAfter(deltas, i - 1), i)]

\* Trends whose scores stay within 0..100, and the empty history.
Trends ==
    {<<>>} \cup
    { Trend(d) : d \in { e \in UNION {[1..k -> TrendDeltas] : k \in 0..(MaxSeriesLen - 1)} :
                            \A i \in 1..Len(e) : ValueAfter(e, i) \in 0..100 } }

\* Local histories of a merge: points of either group (one device reports for
\* both) at seconds 1 and 2, in the order readLocalEventsForGroup returns.
MergePoints == { Point(g, v, t) : g \in Groups, v \in {100, 90}, t \in 1..2 }
MergeLocals ==
    { s \in UNION {[1..k -> MergePoints] : k \in 0..MaxMergeLen} :
          \A i \in 1..(Len(s) - 1) : s[i].ts <= s[i + 1].ts }

\* Ledger histories of a merge: TrustEvents of either group at seconds 1 and
\* 2, in the order they were logged.
MergeLedgers ==
    UNION { [1..k -> { HistoricEvent(g, 80, t) : g \in Groups, t \in 1..2 }] :
                k \in 0..MaxMergeLen }

\* The inputs of one analysis of group-1 with a configured, answering ledger.
SeriesInputs ==
    { [local |-> l, chain |-> <<>>, groupId |-> "group-1"] : l \in Trends }
    \cup
    { [local |-> l, chain |-> c, groupId |-> "group-1"] :
          l \in MergeLocals, c \in MergeLedgers }

NotValidated == [called |-> FALSE, series |-> <<>>,
                 analysis |-> analyzeSeries(<<>>), decision |-> NoDecision]

SeriesInit ==
    /\ GatewayInit
    /\ hasContract /\ hasWallet /\ chain = <<>>
    /\ \A g \in Groups : thresholds[g] = Undefined
    /\ arg \in SeriesInputs
    /\ ret = NotValidated

\* systemValidate on the local history arg.local with the ledger arg.chain:
\* the series buildTrustSeries returns, what analyzeSeries returns on it, and
\* the decision.
Validate ==
    /\ ~ret.called
    /\ ret' = [called |-> TRUE,
               series |-> buildTrustSeries(arg.local,
                              fetchOnChainTrustEvents(arg.chain, arg.groupId)),
               analysis |-> analyzeSeries(buildTrustSeries(arg.local,
                                fetchOnChainTrustEvents(arg.chain, arg.groupId))),
               decision |-> systemValidate(TRUE, arg.local, arg.chain,
                                arg.groupId, "ok")]
    /\ UNCHANGED <<gateway, arg>>

SeriesNext == Validate

SeriesSpec == SeriesInit /\ [][SeriesNext]_vars

\* The statistics of the series the analysis was run on.
Stats == analyzeSeries(ret.series)
Rule1Matches == Stats.drops >= 3 /\ Stats.samples >= 6
\* instabilityCount / max(1, pairs) >= 0.4
Rule2Matches == Stats.instabilityCount * 5 >= 2 * Max(1, Stats.pairs)
\* slope < -2
Rule3Matches == Stats.slopeNum < (0 - 2) * Stats.slopeDen

\* C12: a series with 3 or more drops and 6 or more samples is decided
\* confirm_unreliable with reason recurring_drops, whatever its instability
\* fraction and its slope are.
C12_RecurringDropsFirst ==
    (ret.called /\ Rule1Matches)
        => /\ ret.decision.action = "confirm_unreliable"
           /\ ret.decision.reason = "recurring_drops"

\* A series of 6 samples with exactly 3 drops for which rules 2 and 3 qualify
\* too.
C12_Witness ==
    /\ ret.called
    /\ Stats.drops = 3 /\ Stats.samples = 6
    /\ Rule2Matches /\ Rule3Matches
    /\ ret.decision.action = "confirm_unreliable"

\* C13: a series that rules 1 and 2 do not match and whose slope is below -2
\* is decided adjust_threshold_lower with reason downward_trend and
\* newThreshold = max(10, default threshold - 5).
C13_DownwardTrendLowersThreshold ==
    (ret.called /\ Stats.ok /\ ~Rule1Matches /\ ~Rule2Matches /\ Rule3Matches)
        => /\ ret.decision.action = "adjust_threshold_lower"
           /\ ret.decision.reason = "downward_trend"
           /\ ret.decision.newThreshold = Max(10, DEFAULT_THRESHOLD - 5)

\* C14: a series that rule 1 does not match and whose instability fraction
\* is 0.4 or more is decided flag_for_review with reason high_instability,
\* also when its slope is below -2.
C14_InstabilityBeforeTrend ==
    (ret.called /\ Stats.ok /\ ~Rule1Matches /\ Rule2Matches)
        => /\ ret.decision.action = "flag_for_review"
           /\ ret.decision.reason = "high_instability"

\* A series with two drops in a row: rule 1 does not match, rules 2 and 3 do.
C14_Witness ==
    /\ ret.called /\ Stats.ok
    /\ ~Rule1Matches /\ Rule2Matches /\ Rule3Matches
    /\ ret.decision.action = "flag_for_review"

\* C15: a merged series of length 0 or 1 is decided insufficient_data, and
\* the analysis does not end in its error handler.
C15_ShortSeriesInsufficient ==
    (ret.called /\ Len(ret.series) <= 1)
        => ret.decision.action = "insufficient_data"

\* Two local records of the same group and second merged into a series of
\* one point.
C15_Witness ==
    /\ ret.called
    /\ Len(arg.local) = 2 /\ Len(ret.series) = 1
    /\ ret.decision.action = "insufficient_data"

\* The group a point of the series is of: a ledger point is a TrustEvent of
\* the group the analysis asked the ledger for.
GroupOf(p) == IF p.source = "onchain" THEN arg.groupId ELSE p.groupId

\* C16: no two points of the series buildTrustSeries returns are of the same
\* group and the same ts.
C16_NoDuplicatePoints ==
    ret.called
        => \A i, j \in 1..Len(ret.series) :
               (i # j /\ ret.series[i].ts = ret.series[j].ts)
                   => GroupOf(ret.series[i]) # GroupOf(ret.series[j])

\* C17: when the local history and the ledger hold a point of the analysed
\* group at the same ts, the series holds the local point and no ledger point
\* at that ts.
C17_LocalPointWins ==
    ret.called
        => \A l \in 1..Len(arg.local), c \in 1..Len(arg.chain) :
               (/\ arg.local[l].groupId = arg.groupId
                /\ arg.chain[c].groupId = arg.groupId
                /\ arg.chain[c].ts = arg.local[l].ts)
                   => /\ \E i \in 1..Len(ret.series) :
                             /\ ret.series[i].ts = arg.local[l].ts
                             /\ ret.series[i].source = "local"
                      /\ \A i \in 1..Len(ret.series) :
                             ret.series[i].ts = arg.local[l].ts
                                 => ret.series[i].source = "local"

\* C18: when the getLogs of an analysis fails, the submission is answered all
\* the same, with the decision the analysis gives on the local history it
\* read when there is no ledger adapter at all; no authenticated submission
\* ends without its answer.
C18_FetchFailureFallsBackToLocal ==
    \A r \in Reqs :
        /\ (req[r].pc = "done" /\ req[r].key = GATEWAY_API_KEY) => Answered(r)
        /\ (Answered(r) /\ req[r].fetch = "getLogs_failed")
              => req[r].stored.systemDecision =
                     systemValidate(FALSE, req[r].local, <<>>,
                                    req[r].stored.groupId, "ok")

\* A submission was answered after a failed getLogs, with a decision other
\* than the one the ledger history would have led to.
C18_Witness ==
    \E r \in Reqs :
        /\ Answered(r) /\ req[r].fetch = "getLogs_failed"
        /\ Len(chain) > 0
        /\ req[r].stored.systemDecision #
               systemValidate(TRUE, req[r].local, chain, req[r].stored.groupId, "ok")

\* ------------------------------------------------ the hasher as a function
\* A JavaScript value: a number, a string, an array (its elements in order),
\* or an object (its own keys with their values, in insertion order).
Num(n) == <<"number", n>>
Str(s) == <<"string", s>>
Arr(elems) == <<"array", elems>>
Obj(entries) == <<"object", entries>>

\* Object.keys(obj): the keys in insertion order.
ObjectKeys(obj) == [i \in 1..Len(obj[2]) |-> obj[2][i][1]]
\* obj[k]
Get(obj, k) == obj[2][CHOOSE i \in 1..Len(obj[2]) : obj[2][i][1] = k][2]

\* The keys the modelled objects use, in the order of Array.prototype.sort()
\* without a comparator (by UTF-16 code units).
KeysInOrder ==
    << "a", "b", "deviceId", "eventId", "groupId", "newTS", "oldTS", "reason",
       "trustA", "trustB", "ts" >>
KeyRank(k) == CHOOSE i \in 1..Len(KeysInOrder) : KeysInOrder[i] = k

RECURSIVE InsertKey(_, _)
InsertKey(sorted, k) ==
    IF sorted = <<>> THEN <<k>>
    ELSE IF KeyRank(sorted[Len(sorted)]) <= KeyRank(k) THEN Append(sorted, k)
    ELSE Append(InsertKey(SubSeq(sorted, 1, Len(sorted) - 1), k), sorted[Len(sorted)])

\* Object.keys(obj) as they come, without the sort.
MutKeysUnsorted(keys) == keys

\* keys.sort()
RECURSIVE SortKeys(_)
SortKeys(keys) ==
    IF keys = <<>> THEN <<>>
    ELSE InsertKey(SortKeys(SubSeq(keys, 1, Len(keys) - 1)), keys[Len(keys)])

\* JSON.stringify of a number or a string, as a sequence of tokens.
JSONstringify(v) ==
    IF v[1] = "number" THEN <<ToString(v[2])>> ELSE <<"\"", v[2], "\"">>

\* parts.join(',')
RECURSIVE Join(_)
Join(parts) ==
    IF parts = <<>> THEN <<>>
    ELSE IF Len(parts) = 1 THEN parts[1]
    ELSE parts[1] \o <<",">> \o Join(Tail(parts))

\* stableStringify(obj): the serialization as a sequence of tokens.
RECURSIVE stableStringify(_)
stableStringify(obj) ==
    IF obj[1] \notin {"array", "object"} THEN JSONstringify(obj)
    ELSE IF obj[1] = "array"
    THEN <<"[">> \o Join([i \in 1..Len(obj[2]) |-> stableStringify(obj[2][i])])
                \o <<"]">>
    ELSE LET keys == SortKeys(ObjectKeys(obj))
             parts == [i \in 1..Len(keys) |->
                          JSONstringify(Str(keys[i])) \o <<":">>
                              \o stableStringify(Get(obj, keys[i]))]
         IN <<"{">> \o Join(parts) \o <<"}">>

\* ethers.keccak256(ethers.toUtf8Bytes(json)): an injective tag of the text.
keccak256(json) == <<"keccak256", json>>

\* The largest number a leaf of a generated value holds.
MaxLeaf == 2

Leaves == { Num(n) : n \in 1..MaxLeaf }
KeyOrders == { <<"a", "b">>, <<"b", "a">> }
\* Arrays of two values and objects of two keys over a set of values.
Pairs(values) ==
    { Arr(<<x, y>>) : x \in values, y \in values }
    \cup { Obj(<< <<ks[1], x>>, <<ks[2], y>> >>) :
               x \in values, y \in values, ks \in KeyOrders }
\* Values of nesting depth 2.
NestedValues == Pairs(Leaves \cup Pairs(Leaves))

\* The values that come from v by changing the order of the keys of its
\* objects or the order of the elements of its arrays, at any level.
RECURSIVE Rearranged(_)
Rearranged(v) ==
    IF v[1] = "array"
    THEN { Arr(p) : p \in UNION { {<<x, y>>, <<y, x>>} :
                                   x \in Rearranged(v[2][1]), y \in Rearranged(v[2][2]) } }
    ELSE IF v[1] = "object"
    THEN { Obj(p) : p \in UNION { { << <<v[2][1][1], x>>, <<v[2][2][1], y>> >>,
                                    << <<v[2][2][1], y>>, <<v[2][1][1], x>> >> } :
                                   x \in Rearranged(v[2][1][2]),
                                   y \in Rearranged(v[2][2][2]) } }
    ELSE {v}

\* The body the device posts for a payload: its fields in the order the
\* firmware writes them, a field the payload lacks left out.
Body(payload) ==
    LET all == << <<"eventId", Num(payload.eventId)>>,
                  <<"deviceId", Str(payload.deviceId)>>,
                  <<"groupId", Str(payload.groupId)>>,
                  <<"oldTS", Num(payload.oldTS)>>,
                  <<"newTS", Num(payload.newTS)>>,
                  <<"trustA", Num(payload.trustA)>>,
                  <<"trustB", Num(payload.trustB)>>,
                  <<"reason", Str(payload.reason)>>,
                  <<"ts", Num(payload.ts)>> >>
    IN Obj(SelectSeq(all, LAMBDA e : e[2] # Num(Undefined)))

\* Pairs of values to hash: a nested value with each of its rearrangements,
\* and the bodies of two submissions, with the same id or with two ids.
HashInputs ==
    UNION { { [a |-> v, b |-> w] : w \in Rearranged(v) } : v \in NestedValues }
    \cup { [a |-> Body(p), b |-> Body(q)] :
               p \in Payloads(1, PayloadShapes),
               q \in Payloads(1, PayloadShapes) \cup Payloads(2, PayloadShapes) }

NotHashed == [called |-> FALSE, jsonA |-> <<>>, jsonB |-> <<>>,
              hashA |-> <<>>, hashB |-> <<>>]

HashInit ==
    /\ GatewayInit
    /\ hasContract /\ hasWallet /\ chain = <<>>
    /\ \A g \in Groups : thresholds[g] = Undefined
    /\ arg \in HashInputs
    /\ ret = NotHashed

\* keccakHash on arg.a and on arg.b, as POST /data calls it on a body.
Hash ==
    /\ ~ret.called
    /\ ret' = [called |-> TRUE,
               jsonA |-> stableStringify(arg.a),
               jsonB |-> stableStringify(arg.b),
               hashA |-> keccak256(stableStringify(arg.a)),
               hashB |-> keccak256(stableStringify(arg.b))]
    /\ UNCHANGED <<gateway, arg>>

HashNext == Hash

HashSpec == HashInit /\ [][HashNext]_vars

\* Two values have the same content: the same number or string, arrays with
\* the same content element by element, objects with the same keys and the
\* same content under each key.
RECURSIVE SameContent(_, _)
SameContent(v, w) ==
    IF v[1] # w[1] THEN FALSE
    ELSE IF v[1] = "array"
    THEN /\ Len(v[2]) = Len(w[2])
         /\ \A i \in 1..Len(v[2]) : SameContent(v[2][i], w[2][i])
    ELSE IF v[1] = "object"
    THEN /\ {v[2][i][1] : i \in 1..Len(v[2])} = {w[2][i][1] : i \in 1..Len(w[2])}
         /\ \A i \in 1..Len(v[2]) : SameContent(v[2][i][2], Get(w, v[2][i][1]))
    ELSE v[2] = w[2]

\* C19: two values that differ only in the insertion order of the keys of
\* their objects, at any nesting level, have the same serialization and the
\* same hash; two values that differ otherwise, as in the order of the
\* elements of an array, have not.
C19_KeyOrderIndependent ==
    ret.called
        => /\ SameContent(arg.a, arg.b) <=> (ret.jsonA = ret.jsonB)
           /\ (ret.jsonA = ret.jsonB) <=> (ret.hashA = ret.hashB)

\* Two objects with their keys in opposite orders, and under one key nested
\* objects with their keys in opposite orders too, hashed alike.
C19_Witness ==
    /\ ret.called
    /\ arg.a[1] = "object" /\ arg.b[1] = "object"
    /\ ObjectKeys(arg.a) = <<"b", "a">> /\ ObjectKeys(arg.b) = <<"a", "b">>
    /\ Get(arg.a, "a")[1] = "object" /\ Get(arg.b, "a")[1] = "object"
    /\ ObjectKeys(Get(arg.a, "a")) = <<"b", "a">>
    /\ ObjectKeys(Get(arg.b, "a")) = <<"a", "b">>
    /\ Get(arg.a, "b")[1] = "array"
    /\ ret.hashA = ret.hashB

\* obj without its key k.
Without(obj, k) ==
    IF obj[1] = "object" THEN Obj(SelectSeq(obj[2], LAMBDA e : e[1] # k)) ELSE obj

\* C20: two bodies with the same content apart from eventId get the same
\* dataHash.
C20_SameHashApartFromEventId ==
    (ret.called /\ SameContent(Without(arg.a, "eventId"), Without(arg.b, "eventId")))
        => ret.hashA = ret.hashB

\* ------------------------------------------------- the gateway on bad storage
\* Number of submissions of a behaviour of StorageSpec.
MaxStorageReqs == 2

\* The shapes of StorageSpec: one flagged, one not, under the default
\* threshold.
StorageShapes ==
    { <<"group-1", <<59, 100>>, 1000>>,
      <<"group-1", <<60, 100>>, 2000>> }

\* The gateway when reading or writing events.json may fail at any append.
StorageNext ==
    Step(MaxStorageReqs, StorageOutcomes, {GATEWAY_API_KEY}, StorageShapes, {"ok"})

StorageSpec == QueueInit /\ [][StorageNext]_vars

\* C21: every step leaves each record of the event log in the log, unchanged
\* and at its position: the log before the step is a prefix of the log after
\* it, also when the read of an append fails.
C21_LogAppendOnly ==
    [][/\ Len(events') >= Len(events)
       /\ \A i \in 1..Len(events) : events'[i] = events[i]]_vars

\* The submission whose handler settles in this step.
Settles(r) == req[r].pc = "validating" /\ req'[r].pc = "done"

\* C22: a step that changes the threshold map is the settling of a submission
\* whose decision is adjust_threshold_lower; it changes the entry of that
\* submission's group alone, to the newThreshold of the decision.  Every other
\* settling and every step of the queue worker leaves the map as it was.
C22_ThresholdsFrame ==
    [][thresholds' # thresholds =>
         \E r \in Reqs :
             /\ Settles(r)
             /\ response'[r].action = "adjust_threshold_lower"
             /\ thresholds'[req'[r].stored.groupId] =
                    req'[r].stored.systemDecision.newThreshold
             /\ \A g \in Groups :
                    g # req'[r].stored.groupId => thresholds'[g] = thresholds[g]]_vars

\* A stored map with an entry, a submission answered on the path of the
\* downward-trend rule, and a ledger write done by the worker: the map is
\* still one of the initial maps.
C22_Witness ==
    /\ \E g \in Groups : thresholds[g] # Undefined
    /\ thresholds \in InitialThresholds
    /\ \E r \in Reqs :
           /\ Answered(r)
           /\ response[r].action = "validation_error"
    /\ \E e \in Reqs : HasRecord(e, "post-chain")

\* C23: every record of the event log has a lifecycle update published for
\* the same event and the same stage.
C23_RecordsPublished ==
    \A i \in 1..Len(events) :
        Published("event_update", events[i].eventId, events[i].stage)

\* The analysis of r ended in an error: systemValidate settled to the
\* decision of its catch.
AnalysisFailed(r) ==
    /\ req[r].pc = "done"
    /\ verifyApiKey(req[r].key)
    /\ req[r].stored.systemDecision.action = "validation_error"

\* C24: a submission whose trend analysis failed is not aborted: its decision
\* is validation_error, its pre-chain record is in the log, it is answered as
\* any other submission, and it is flagged (and enqueued) exactly when the
\* local threshold rule flagged it.
C24_AnalysisErrorTolerated ==
    \A r \in Reqs :
        AnalysisFailed(r) =>
            /\ response[r].status = 200
            /\ response[r].action = "validation_error"
            /\ HasRecord(r, "pre-chain")
            /\ events[RecordIndex(r, "pre-chain")].flagged = req[r].stored.localFlagged
            /\ response[r].flagged <=> req[r].stored.localFlagged
            /\ IsEnqueued(r) <=> req[r].stored.localFlagged

\* Two submissions whose analysis failed were answered: one the local rule
\* did not flag, answered flagged:false, and one it flagged, enqueued.
C24_Witness ==
    \E r, q \in Reqs :
        /\ AnalysisFailed(r) /\ ~req[r].stored.localFlagged
        /\ ~response[r].flagged /\ HasRecord(r, "pre-chain")
        /\ AnalysisFailed(q) /\ req[q].stored.localFlagged
        /\ response[q].flagged /\ IsEnqueued(q)

\* C25: with appends that may fail at every stage, a submission is still
\* answered as usual, its later stages still run (their lifecycle updates are
\* published), and it is enqueued, and handed to the worker, exactly when it
\* is flagged.
C25_AppendFailureTolerated ==
    \A r \in Reqs :
        /\ req[r].pc \in {"validating", "done"} =>
               Published("event_update", r, "received")
        /\ req[r].pc = "done" =>
               LET due == \/ req[r].stored.localFlagged
                          \/ req[r].stored.systemDecision.action = "confirm_unreliable"
               IN /\ response[r].status = 200
                  /\ Published("event_update", r, "system-validation")
                  /\ Published("event_update", r, "pre-chain")
                  /\ response[r].flagged <=> due
                  /\ IsEnqueued(r) <=> due
                  /\ IsEnqueued(r) => (Waiting(r) \/ CallsOf(r) # {})

\* Every append of a flagged submission failed, the received, the
\* system-validation, the pre-chain and the queued one: the log is empty, and
\* the submission was answered, enqueued and submitted to the ledger.
C25_Witness ==
    \E r \in Reqs :
        /\ Answered(r) /\ response[r].flagged
        /\ IsEnqueued(r) /\ CallsOf(r) # {}
        /\ events = <<>>

\* The submission of the wrapper of worker w fails in this step.
SubmissionFails(w) ==
    /\ worker[w].pc = "submitting"
    /\ \E i \in 1..Len(calls) :
           calls[i].outcome = "pending" /\ FailedOutcome(calls'[i].outcome)

\* The step appends a post-chain-failed record of event e.
DropsItem(e) ==
    /\ Len(events') = Len(events) + 1
    /\ events'[Len(events')].eventId = e
    /\ events'[Len(events')].stage = "post-chain-failed"

\* C26: when a submission fails and the attempts counter of its wrapper is
\* below 4, the step puts the item at the tail of the write queue with the
\* counter one higher and appends no post-chain-failed record; the item is
\* dropped with a post-chain-failed record only at a counter of 4 or more.
C26_RequeueUntilFourAttempts ==
    [][\A w \in Reqs :
          SubmissionFails(w) =>
              LET wrapper == worker[w].wrapper
              IN IF wrapper.attempts < maxAttempts
                 THEN /\ writeQueue' = Append(writeQueue,
                              [item |-> wrapper.item,
                               attempts |-> wrapper.attempts + 1])
                      /\ ~DropsItem(wrapper.item.eventId)
                 ELSE DropsItem(wrapper.item.eventId)]_vars

\* C27: after the k-th failed submission of an item, k = 1, 2, 3, the worker
\* waits 1000 * 2^k ms (2000, 4000, 8000) before the retry: the step of the
\* failure leaves the worker in its backoff wait with that delay, and submits
\* nothing.
C27_BackoffDoubles ==
    [][\A w \in Reqs :
          (SubmissionFails(w) /\ worker[w].wrapper.attempts + 1 <= 3) =>
              /\ worker'[w].pc = "backoff"
              /\ worker'[w].timerMs = <<2000, 4000, 8000>>[worker[w].wrapper.attempts + 1]
              /\ InFlight' = {}]_vars

\* C28: while the write queue is non-empty exactly one worker is active, and
\* processingQueue is set exactly while a worker is active; a worker ends
\* only on an empty queue; an enqueue on an idle queue starts exactly one
\* worker, an enqueue on a busy one starts none.
C28_WorkerWhileQueued ==
    /\ [](/\ writeQueue # <<>> => Cardinality(ActiveWorkers) = 1
          /\ processingQueue <=> ActiveWorkers # {})
    /\ [][/\ \A w \in Reqs :
                (w \in ActiveWorkers /\ w \notin ActiveWorkers') =>
                    (writeQueue = <<>> /\ writeQueue' = <<>>)
          /\ Len(enqueued') > Len(enqueued) =>
                IF processingQueue
                THEN ActiveWorkers' = ActiveWorkers
                ELSE /\ Cardinality(ActiveWorkers') = 1
                     /\ \E w \in Reqs :
                            worker[w].pc = "none" /\ worker'[w].pc = "submitting"]_vars

\* A first worker drained the queue and ended; a later enqueue on the idle
\* queue started a second one, which is active while an item waits.
C28_Witness ==
    \E w, v \in Reqs :
        /\ worker[w].pc = "exited"
        /\ worker[v].pc \in {"submitting", "pause"}
        /\ ActiveWorkers = {v}
        /\ writeQueue # <<>>

\* The place of a stage in the life of an event.
StageRank(stage) ==
    CASE stage = "received" -> 1
      [] stage \in {"system-validation", "system-validation-error"} -> 2
      [] stage = "pre-chain" -> 3
      [] stage = "queued" -> 4
      [] stage \in Terminal -> 5

\* The records of one event follow each other in the order of the stages.
StagesInOrder ==
    \A i, j \in 1..Len(events) :
        (i < j /\ events[i].eventId = events[j].eventId)
            => StageRank(events[i].stage) < StageRank(events[j].stage)

\* C29: the records of an event id are in the order received, then
\* system-validation or system-validation-error, then pre-chain, then queued,
\* then post-chain or post-chain-failed, and the record of the analysis stage
\* is a system-validation-error one exactly when the decision of the event is
\* validation_error.
C29_StageOrder ==
    /\ StagesInOrder
    /\ \A i \in 1..Len(events) :
           StageRank(events[i].stage) = 2 =>
               (events[i].stage = "system-validation-error"
                    <=> events[i].systemDecision.action = "validation_error")

\* The worker w is in one of its two waits.
InWait(w) == worker[w].pc \in {"pause", "backoff"}

MaxWindowLen == 22

\* A local history of n records of group-1, in the order
\* readLocalEventsForGroup returns: one record per second, or, with paired,
\* two records per second (an event leaves several records under one ts).
WindowLocal(n, paired) ==
    [i \in 1..n |-> Point("group-1", 100 - (i % 7),
                          IF paired THEN (i + 1) \div 2 ELSE i)]

\* Ledger histories of group-1: none, one older than every local record, one
\* in their midst, and three of which the last is newer than all of them.
WindowLedgers ==
    { <<>>,
      <<HistoricEvent("group-1", 80, 0)>>,
      <<HistoricEvent("group-1", 80, 12)>>,
      <<HistoricEvent("group-1", 80, 0), HistoricEvent("group-1", 80, 12),
        HistoricEvent("group-1", 80, 40)>> }

WindowInputs ==
    { [local |-> WindowLocal(n, paired), chain |-> c, groupId |-> "group-1"] :
          n \in 0..MaxWindowLen, paired \in BOOLEAN, c \in WindowLedgers }

WindowInit ==
    /\ GatewayInit
    /\ hasContract /\ hasWallet /\ chain = <<>>
    /\ \A g \in Groups : thresholds[g] = Undefined
    /\ arg \in WindowInputs
    /\ ret = NotValidated

WindowSpec == WindowInit /\ [][SeriesNext]_vars

\* The points that went into the merge of the analysis.
MergedPoints ==
    {arg.local[i] : i \in 1..Len(arg.local)}
    \cup {OnChainPoint(arg.chain[i]) : i \in 1..Len(arg.chain)}

\* C31: the series is in ascending order of ts, has at most 20 points, each
\* of them a point of the merge; a point of the merge that has no point of
\* its group and ts in the series was cut off by the window: the series then
\* has 20 points and none of them is older than the point left out.
C31_LastTwentyAscending ==
    ret.called =>
        /\ \A i, j \in 1..Len(ret.series) :
               i < j => ret.series[i].ts <= ret.series[j].ts
        /\ Len(ret.series) <= 20
        /\ \A i \in 1..Len(ret.series) : ret.series[i] \in MergedPoints
        /\ \A p \in MergedPoints :
               \/ \E i \in 1..Len(ret.series) : DedupKey(ret.series[i]) = DedupKey(p)
               \/ /\ Len(ret.series) = 20
                  /\ \A i \in 1..Len(ret.series) : p.ts <= ret.series[i].ts

\* The merge had more than 20 points after the dedup, a ledger point among
\* the ones cut off and one among the ones kept.
C31_Witness ==
    /\ ret.called
    /\ Len(ret.series) = 20
    /\ Len(arg.local) = 22
    /\ \E p \in MergedPoints :
           /\ p.source = "onchain"
           /\ \A i \in 1..Len(ret.series) : ret.series[i] # p
    /\ \E i \in 1..Len(ret.series) : ret.series[i].source = "onchain"

\* --------------------------------------------------- the counts of a series
\* The longest series of AnalyzeSpec, in pairs of consecutive points.
MaxPairs == 4

\* The changes of the score from one point to the next: on both sides of the
\* drop delta and of the instability delta, and no change.
StepDeltas == {0 - 10, 0 - 9, 0 - 8, 0 - 7, 0, 8, 10}

RECURSIVE WalkValue(_, _)
WalkValue(deltas, n) == IF n = 0 THEN 50 ELSE WalkValue(deltas, n - 1) + deltas[n]

\* The local history of group-1 that starts at 50 and moves by deltas, one
\* point per second: integer scores within 0..100.
Walk(deltas) ==
    [i \in 1..(Len(deltas) + 1) |-> Point("group-1", WalkValue(deltas, i - 1), i)]

AnalyzeInputs ==
    { [local |-> l, chain |-> <<>>, groupId |-> "group-1"] :
          l \in {<<>>} \cup { Walk(d) : d \in UNION {[1..k -> StepDeltas] : k \in 0..MaxPairs} } }

AnalyzeInit ==
    /\ GatewayInit
    /\ hasContract /\ hasWallet /\ chain = <<>>
    /\ \A g \in Groups : thresholds[g] = Undefined
    /\ arg \in AnalyzeInputs
    /\ ret = NotValidated

AnalyzeSpec == AnalyzeInit /\ [][SeriesNext]_vars

\* The change of the score at the i-th pair of the analysed series.
DeltaAt(i) == ret.series[i + 1].newTS - ret.series[i].newTS
DropPairs == {i \in 1..(Len(ret.series) - 1) : DeltaAt(i) <= 0 - 10}
UnstablePairs ==
    {i \in 1..(Len(ret.series) - 1) : DeltaAt(i) >= 8 \/ DeltaAt(i) <= 0 - 8}

\* C32: on a series of two or more points with integer scores, drops is the
\* number of pairs with delta <= -10, the instability count the number of
\* pairs with |delta| >= 8 (every drop among them), the fraction is that
\* count over max(1, number of pairs), and samples is the number of points.
C32_DropAndInstabilityCounts ==
    (ret.called /\ Len(ret.series) >= 2) =>
        /\ ret.analysis.ok
        /\ ret.analysis.drops = Cardinality(DropPairs)
        /\ ret.analysis.instabilityCount = Cardinality(UnstablePairs)
        /\ DropPairs \subseteq UnstablePairs
        /\ Max(1, ret.analysis.pairs) = Max(1, Len(ret.series) - 1)
        /\ ret.analysis.samples = Len(ret.series)

\* Five points: a fall by 10 (a drop), a fall by 9 and a rise by 8 (unstable,
\* no drops), and a fall by 7 (neither).
C32_Witness ==
    /\ ret.called
    /\ Len(ret.series) = 5
    /\ ret.analysis.drops = 1
    /\ ret.analysis.instabilityCount = 3
    /\ \E i, j, k, l \in 1..4 :
           /\ DeltaAt(i) = 0 - 10 /\ DeltaAt(j) = 0 - 9
           /\ DeltaAt(k) = 8 /\ DeltaAt(l) = 0 - 7

\* C33: the TrustEvent a ledger submission logs for a queued item carries the
\* dataHash of the item: the hash computed from the payload at ingestion,
\* stored in the records of the event and returned in the answer.
C33_LedgerHashIsIngestionHash ==
    [][\A w \in Reqs :
          (worker[w].pc = "submitting" /\ Len(chain') = Len(chain) + 1) =>
              LET item == worker[w].wrapper.item
              IN /\ chain'[Len(chain')].dataHash = item.dataHash
                 /\ item.dataHash = keccakHash(item.payload)
                 /\ item.dataHash = response[item.eventId].hash
                 /\ \A i \in 1..Len(events) :
                        events[i].eventId = item.eventId =>
                            events[i].dataHash = item.dataHash]_vars

\* C34: the TrustEvent a ledger submission logs for a queued item carries the
\* submission timestamp of the payload, in seconds as the device sent it: the
\* ts under which the records of the event become trend points.
C34_LedgerTsIsPayloadTs ==
    [][\A w \in Reqs :
          (worker[w].pc = "submitting" /\ Len(chain') = Len(chain) + 1) =>
              LET item == worker[w].wrapper.item
              IN /\ chain'[Len(chain')].ts = item.payload.ts
                 /\ \A i \in 1..Len(events) :
                        events[i].eventId = item.eventId =>
                            LocalPoint(events[i], clock).ts = chain'[Len(chain')].ts]_vars

\* Where the item of event e is: how often in the write queue, with how many
\* workers in flight, and how many terminal records it has.
TimesQueued(e) ==
    Cardinality({i \in 1..Len(writeQueue) : writeQueue[i].item.eventId = e})
TimesInFlight(e) ==
    Cardinality({w \in Reqs : /\ worker[w].pc = "submitting"
                              /\ worker[w].wrapper.item.eventId = e})
TerminalRecords(e) ==
    {i \in 1..Len(events) : events[i].eventId = e /\ events[i].stage \in Terminal}

\* C35: an enqueued item is at every moment in exactly one place, once in the
\* write queue, in flight with one worker, or finished with its one terminal
\* record; it never has two terminal records, of the same stage or of both.
C35_OneTerminalRecord ==
    \A e \in Reqs :
        /\ Cardinality(TerminalRecords(e)) <= 1
        /\ TimesQueued(e) + TimesInFlight(e) + Cardinality(TerminalRecords(e))
               = (IF IsEnqueued(e) THEN 1 ELSE 0)

\* Three enqueued items at once: one finished, one in flight, one waiting.
C35_Witness ==
    \E a, b, c \in Reqs :
        /\ Cardinality(TerminalRecords(a)) = 1
        /\ TimesInFlight(b) = 1
        /\ TimesQueued(c) = 1

\* ------------------------------------------------- the gateway and its clock
\* Number of submissions of a behaviour of ClockSpec, and the last second of
\* its clock.
MaxClockReqs == 2
MaxClock == 2

\* The shapes of ClockSpec: flagged submissions, one without a timestamp in
\* its payload and one with.
ClockShapes ==
    { <<"group-1", <<59, 100>>, Undefined>>,
      <<"group-1", <<59, 100>>, 1000>> }

\* A second goes by.
Tick ==
    /\ clock < MaxClock
    /\ clock' = clock + 1
    /\ UNCHANGED <<hasContract, hasWallet, events, thresholds, published,
                   writeQueue, processingQueue, req, response, worker, chain,
                   txCount, calls, enqueued, arg, ret>>

ClockNext ==
    \/ Step(MaxClockReqs, StorageReliable, {GATEWAY_API_KEY}, ClockShapes, {"ok"})
    \/ Tick

ClockSpec == QueueInit /\ [][ClockNext]_vars

\* C36: read at any moment, all the records an event has left in the log are
\* projected to the same group and the same ts, and that ts is the timestamp
\* of the payload or, when the payload has none, the second the event was
\* received.
C36_OnePointPerEvent ==
    \A i, j \in 1..Len(events) :
        events[i].eventId = events[j].eventId =>
            /\ LocalPoint(events[i], clock).groupId = LocalPoint(events[j], clock).groupId
            /\ LocalPoint(events[i], clock).ts = LocalPoint(events[j], clock).ts
            /\ LocalPoint(events[i], clock).ts =
                   (IF events[i].payload.ts # Undefined
                    THEN events[i].payload.ts
                    ELSE req[events[i].eventId].stored.receivedAt)

====
